---------------------------- MODULE Spec2Model ----------------------------
(***************************************************************************)
(* A model of the tabular data editor: the upload parsers of               *)
(* file-upload.tsx, the editor state of file-upload-editor.tsx and the     *)
(* query engine and structural edits of data-table.tsx.                    *)
(*                                                                         *)
(* JavaScript strings are sequences of one-character strings, so that      *)
(* trim, split, toLowerCase, includes and < are computed, not assumed.     *)
(* A JavaScript value is a record tagged with its typeof.  A row object is *)
(* a record of its identity (id) and its own properties (cells).           *)
(***************************************************************************)
EXTENDS Integers, Sequences, FiniteSets, TLC

(***************************************************************************)
(* Bounds of the model.                                                    *)
(***************************************************************************)
\* Largest number of "a" rows of a generated table (SpecPage).
MaxRows == 66
\* Largest number of rows of a table handed to the query engine (SpecQuery).
MaxQueryRows == 3
\* Largest number of file reads in flight at once.
MaxReads == 2
\* Lines after the header line of a generated CSV file.
MaxCsvLines == 2
\* Largest number of progress intervals running at once (SpecSubmit).
MaxIntervals == 2

(***************************************************************************)
(* Strings.                                                                *)
(***************************************************************************)
\* The UTF-16 code unit of a character (String.prototype.charCodeAt).
CharCode(c) ==
  CASE c = "\n" -> 10 [] c = " " -> 32 [] c = "," -> 44
    [] c = "0" -> 48 [] c = "1" -> 49 [] c = "2" -> 50 [] c = "3" -> 51
    [] c = "4" -> 52 [] c = "5" -> 53 [] c = "6" -> 54 [] c = "7" -> 55
    [] c = "8" -> 56 [] c = "9" -> 57
    [] c = "A" -> 65 [] c = "B" -> 66 [] c = "C" -> 67
    [] c = "a" -> 97 [] c = "b" -> 98 [] c = "c" -> 99 [] c = "d" -> 100
    [] c = "e" -> 101 [] c = "f" -> 102 [] c = "i" -> 105 [] c = "l" -> 108
    [] c = "m" -> 109 [] c = "n" -> 110 [] c = "o" -> 111 [] c = "u" -> 117
    [] c = "-" -> 45

\* toLowerCase of one character: only A-Z change.
LowerChar(c) ==
  CASE c = "A" -> "a" [] c = "B" -> "b" [] c = "C" -> "c" [] OTHER -> c

\* String.prototype.toLowerCase.
ToLowerCase(s) == [i \in 1..Len(s) |-> LowerChar(s[i])]

\* White space as String.prototype.trim sees it.
IsSpace(c) == c \in {" ", "\n"}

RECURSIVE TrimStart(_)
TrimStart(s) ==
  IF s # <<>> /\ IsSpace(Head(s)) THEN TrimStart(Tail(s)) ELSE s

RECURSIVE TrimEnd(_)
TrimEnd(s) ==
  IF s # <<>> /\ IsSpace(s[Len(s)]) THEN TrimEnd(SubSeq(s, 1, Len(s) - 1)) ELSE s

\* String.prototype.trim.
Trim(s) == TrimEnd(TrimStart(s))

\* String.prototype.split on a one-character separator: always at least one
\* piece, the empty string splits into one empty piece.
RECURSIVE Split(_, _)
Split(s, sep) ==
  IF \A i \in 1..Len(s) : s[i] # sep
  THEN <<s>>
  ELSE LET i == CHOOSE k \in 1..Len(s) : s[k] = sep /\ \A j \in 1..(k - 1) : s[j] # sep
       IN  <<SubSeq(s, 1, i - 1)>> \o Split(SubSeq(s, i + 1, Len(s)), sep)

\* String.prototype.includes.
Includes(s, t) ==
  \E i \in 0..(Len(s) - Len(t)) : SubSeq(s, i + 1, i + Len(t)) = t

\* The < of two strings: by code units, a proper prefix first.
RECURSIVE StrLess(_, _)
StrLess(s, t) ==
  IF t = <<>> THEN FALSE
  ELSE IF s = <<>> THEN TRUE
  ELSE IF CharCode(Head(s)) # CharCode(Head(t)) THEN CharCode(Head(s)) < CharCode(Head(t))
  ELSE StrLess(Tail(s), Tail(t))

Digit(d) == <<"0", "1", "2", "3", "4", "5", "6", "7", "8", "9">>[d + 1]

RECURSIVE NatToString(_)
NatToString(n) ==
  IF n < 10 THEN <<Digit(n)>> ELSE NatToString(n \div 10) \o <<Digit(n % 10)>>

\* Number.prototype.toString of an integer.
NumToString(n) == IF n < 0 THEN <<"-">> \o NatToString(0 - n) ELSE NatToString(n)

(***************************************************************************)
(* Values: string | number | null | undefined.                             *)
(***************************************************************************)
Str(s) == [t |-> "string", s |-> s]
Num(n) == [t |-> "number", n |-> n]
NullValue == [t |-> "null"]
Undefined == [t |-> "undefined"]

IsNullish(v) == v = NullValue \/ v = Undefined

\* String(value).
StringOf(v) ==
  CASE v.t = "string" -> v.s
    [] v.t = "number" -> NumToString(v.n)
    [] v.t = "null" -> <<"n", "u", "l", "l">>
    [] v.t = "undefined" -> <<"u", "n", "d", "e", "f", "i", "n", "e", "d">>

(***************************************************************************)
(* Objects: a row's own properties in insertion order, as Object.entries   *)
(* lists them (no property name of the model is an array index, which      *)
(* JavaScript would list first).                                           *)
(***************************************************************************)
Keys(cells) == {cells[i].k : i \in DOMAIN cells}

\* obj[key] = value: a known property keeps its place, a new one goes last.
SetProp(cells, key, value) ==
  IF key \in Keys(cells)
  THEN [i \in DOMAIN cells |-> IF cells[i].k = key THEN [k |-> key, v |-> value] ELSE cells[i]]
  ELSE Append(cells, [k |-> key, v |-> value])

\* row[key]: undefined when the row has no such property.
Get(row, key) ==
  IF key \in Keys(row.cells)
  THEN row.cells[CHOOSE i \in DOMAIN row.cells : row.cells[i].k = key].v
  ELSE Undefined

\* Object.values(row).
ObjectValues(row) == {row.cells[i].v : i \in DOMAIN row.cells}

\* The row objects of a table are distinct objects; an object's identity is
\* compared only with the rows of the same render, so the rows of a table
\* are named 1..n in order.
WithIds(cellsSeq) == [i \in DOMAIN cellsSeq |-> [id |-> i, cells |-> cellsSeq[i]]]

CellsOf(rows) == [i \in DOMAIN rows |-> rows[i].cells]

(***************************************************************************)
(* State.                                                                  *)
(***************************************************************************)
VARIABLES
  data,         \* FileUploadEditor: the TableData, or Null
  isLoading,    \* FileUploadEditor: the "Processing file..." overlay
  isSubmitting,        \* FileUploadEditor: the "Submitting data..." overlay
  submitMessage,       \* FileUploadEditor: "", "success" or "failure"
  submissionProgress,  \* FileUploadEditor: the progress shown, 0..100
  fetching,     \* handleSubmit: whether its request is in flight
  intervals,    \* handleSubmit: the progress intervals that run
  resetPending, \* handleSubmit: whether the timeout after a success is due
  reads,        \* FileUpload: the files whose read is in flight
  error,        \* FileUpload: whether an error message is shown
  sortConfig,   \* DataTable: [key, direction], or Null
  searchTerm,   \* DataTable: the search box
  currentPage,  \* DataTable: the stored page
  last          \* history: the handler that ran last and what it found

submitVars ==
  <<isSubmitting, submitMessage, submissionProgress, fetching, intervals, resetPending>>
editorVars == <<data, isLoading, submitVars>>
uploadVars == <<reads, error>>
viewVars == <<sortConfig, searchTerm, currentPage>>
vars ==
  <<data, isLoading, submitVars, reads, error, sortConfig, searchTerm, currentPage, last>>

\* null, for data and for sortConfig.
Null == [null |-> TRUE]

RECORDS_PER_PAGE == 30
\* The 5 of the pinned tail (written as a literal throughout data-table.tsx).
TAIL == 5

(***************************************************************************)
(* Query engine (data-table.tsx): filter, then sort, then paginate.        *)
(***************************************************************************)
\* A faulty RowMatches, which C6 rejects: the value is not lowercased.
RowMatchesCaseSensitive(row, lowerTerm) ==
  \E value \in ObjectValues(row) : Includes(StringOf(value), lowerTerm)

\* 1. Filter: rows with some value whose lowercased string holds the
\* lowercased term; an empty term keeps every row.
RowMatches(row, lowerTerm) ==
  \E value \in ObjectValues(row) : Includes(ToLowerCase(StringOf(value)), lowerTerm)

FilterRows(rows, term) ==
  IF term # <<>>
  THEN LET lowerTerm == ToLowerCase(term)
           Keep(row) == RowMatches(row, lowerTerm)
       IN  SelectSeq(rows, Keep)
  ELSE rows

\* A faulty Compare, which C4 rejects: a missing value is ordered by the
\* direction like any other.
CompareNullsByDirection(a, b, cfg) ==
  LET aValue == Get(a, cfg.key)
      bValue == Get(b, cfg.key)
  IN  IF aValue = bValue THEN 0
      ELSE IF IsNullish(aValue) THEN (IF cfg.direction = "asc" THEN 1 ELSE -1)
      ELSE IF IsNullish(bValue) THEN (IF cfg.direction = "asc" THEN -1 ELSE 1)
      ELSE IF aValue.t = "number" /\ bValue.t = "number"
           THEN (IF cfg.direction = "asc" THEN aValue.n - bValue.n ELSE bValue.n - aValue.n)
      ELSE LET aString == ToLowerCase(StringOf(aValue))
               bString == ToLowerCase(StringOf(bValue))
           IN  IF StrLess(aString, bString) THEN (IF cfg.direction = "asc" THEN -1 ELSE 1)
               ELSE IF StrLess(bString, aString) THEN (IF cfg.direction = "asc" THEN 1 ELSE -1)
               ELSE 0

\* A faulty Compare, which C5 rejects: the direction is ignored.
CompareAscendingOnly(a, b, cfg) ==
  LET aValue == Get(a, cfg.key)
      bValue == Get(b, cfg.key)
  IN  IF aValue = bValue THEN 0
      ELSE IF IsNullish(aValue) THEN 1
      ELSE IF IsNullish(bValue) THEN -1
      ELSE IF aValue.t = "number" /\ bValue.t = "number" THEN aValue.n - bValue.n
      ELSE LET aString == ToLowerCase(StringOf(aValue))
               bString == ToLowerCase(StringOf(bValue))
           IN  IF StrLess(aString, bString) THEN -1
               ELSE IF StrLess(bString, aString) THEN 1
               ELSE 0

\* 2. The comparator handed to Array.prototype.sort: negative when a goes
\* first, positive when b goes first, 0 when they stay as they are.
Compare(a, b, cfg) ==
  LET aValue == Get(a, cfg.key)
      bValue == Get(b, cfg.key)
  IN  IF aValue = bValue THEN 0
      ELSE IF IsNullish(aValue) THEN 1
      ELSE IF IsNullish(bValue) THEN -1
      ELSE IF aValue.t = "number" /\ bValue.t = "number"
           THEN (IF cfg.direction = "asc" THEN aValue.n - bValue.n ELSE bValue.n - aValue.n)
      ELSE LET aString == ToLowerCase(StringOf(aValue))
               bString == ToLowerCase(StringOf(bValue))
           IN  IF StrLess(aString, bString) THEN (IF cfg.direction = "asc" THEN -1 ELSE 1)
               ELSE IF StrLess(bString, aString) THEN (IF cfg.direction = "asc" THEN 1 ELSE -1)
               ELSE 0

\* Array.prototype.sort is a stable sort: a merge sort that takes from the
\* right run only what the comparator puts strictly first.
RECURSIVE Merge(_, _, _)
Merge(l, r, cfg) ==
  IF l = <<>> THEN r
  ELSE IF r = <<>> THEN l
  ELSE IF Compare(Head(r), Head(l), cfg) < 0
       THEN <<Head(r)>> \o Merge(l, Tail(r), cfg)
       ELSE <<Head(l)>> \o Merge(Tail(l), r, cfg)

RECURSIVE SortRows(_, _)
SortRows(rows, cfg) ==
  IF Len(rows) <= 1 THEN rows
  ELSE LET half == Len(rows) \div 2
       IN  Merge(SortRows(SubSeq(rows, 1, half), cfg),
                 SortRows(SubSeq(rows, half + 1, Len(rows)), cfg), cfg)

ProcessRows(rows, term, cfg) ==
  LET filtered == FilterRows(rows, term)
  IN  IF cfg # Null THEN SortRows(filtered, cfg) ELSE filtered

\* Math.ceil(a / b) for a >= 0, b > 0.
Ceil(a, b) == (a + b - 1) \div b

Min(a, b) == IF a < b THEN a ELSE b
Max(a, b) == IF a > b THEN a ELSE b

\* Array.prototype.slice(start, end) with 0 <= start, half-open.
Slice(s, start, end) == SubSeq(s, start + 1, Min(end, Len(s)))

\* Array.prototype.slice(-n).
SliceLast(s, n) == SubSeq(s, Max(Len(s) - n, 0) + 1, Len(s))

\* A faulty PaginateRows, which C1 rejects: the page body is not cut at the
\* tail, so the last page shows rows of the tail twice.
PaginateRowsIntoTail(processedRows, page0) ==
  LET totalRows == Len(processedRows)
  IN  IF totalRows <= RECORDS_PER_PAGE + TAIL
      THEN [rows |-> processedRows, displayIndicesStart |-> 0]
      ELSE LET maxPage == Ceil(totalRows - TAIL, RECORDS_PER_PAGE)
               page == Min(page0, maxPage)
               startIdx == (page - 1) * RECORDS_PER_PAGE
               endIdx == startIdx + RECORDS_PER_PAGE
               mainPart == Slice(processedRows, startIdx, endIdx)
               lastPart == SliceLast(processedRows, TAIL)
           IN  [rows |-> mainPart \o lastPart, displayIndicesStart |-> startIdx]

\* 3. Paginate with the pinned tail.
PaginateRows(processedRows, page0) ==
  LET totalRows == Len(processedRows)
  IN  IF totalRows <= RECORDS_PER_PAGE + TAIL
      THEN [rows |-> processedRows, displayIndicesStart |-> 0]
      ELSE LET maxPage == Ceil(totalRows - TAIL, RECORDS_PER_PAGE)
               page == Min(page0, maxPage)
               startIdx == (page - 1) * RECORDS_PER_PAGE
               endIdx == Min(startIdx + RECORDS_PER_PAGE, totalRows - TAIL)
               mainPart == Slice(processedRows, startIdx, endIdx)
               lastPart == SliceLast(processedRows, TAIL)
           IN  [rows |-> mainPart \o lastPart, displayIndicesStart |-> startIdx]

\* Math.ceil(Math.max(totalFilteredRows - 5, 0) / RECORDS_PER_PAGE) || 1
TotalPages(total) ==
  LET pages == Ceil(Max(total - TAIL, 0), RECORDS_PER_PAGE)
  IN  IF pages = 0 THEN 1 ELSE pages

HasGap(total, page) == total > RECORDS_PER_PAGE + TAIL /\ page < TotalPages(total)

\* The row number shown at position index (0-based) of paginatedRows.
DisplayIndex(index, displayIndicesStart, total, gap) ==
  LET isLastFive == gap /\ index >= RECORDS_PER_PAGE
  IN  IF isLastFive
      THEN total - TAIL + (index - RECORDS_PER_PAGE) + 1
      ELSE displayIndicesStart + index + 1

\* The "... N more records ..." row is rendered before position index.
IsLastFiveStart(index, gap) == gap /\ index = RECORDS_PER_PAGE

\* The N of the gap marker.
GapMarkerCount(total) == total - RECORDS_PER_PAGE - TAIL

\* The page indicator and the first / previous / next / last controls.
PagingShown(total) == total > RECORDS_PER_PAGE

\* The page-number buttons: at most 5, a window around the stored page.
PageButtons(pages, page) ==
  LET PageNum(i) == IF pages > 5 /\ page > 3 THEN page - 2 + i ELSE i + 1
  IN  {n \in {PageNum(i) : i \in 0..(Min(5, pages) - 1)} : ~(n > pages)}

\* One render of DataTable: what it computes from its props and state, and
\* what it shows.  The handlers of a render close over these values.
Render ==
  LET processedRows == ProcessRows(data.rows, searchTerm, sortConfig)
      paginated == PaginateRows(processedRows, currentPage)
      total == Len(processedRows)
      pages == TotalPages(total)
      gap == HasGap(total, currentPage)
      shown == 0..(Len(paginated.rows) - 1)
  IN  [processedRows |-> processedRows,
       paginatedRows |-> paginated.rows,
       displayIndicesStart |-> paginated.displayIndicesStart,
       totalFilteredRows |-> total,
       maxPage |-> pages,
       hasGap |-> gap,
       displayIndex |-> [index \in shown |->
                           DisplayIndex(index, paginated.displayIndicesStart, total, gap)],
       gapMarkerAt |-> {index \in shown : IsLastFiveStart(index, gap)},
       gapMarkerCount |-> GapMarkerCount(total),
       noMatchShown |-> Len(paginated.rows) = 0,
       pagingShown |-> PagingShown(total),
       pageButtons |-> PageButtons(pages, currentPage)]

\* The set of a table's header names.
Headers(d) == {d.headers[i] : i \in DOMAIN d.headers}

(***************************************************************************)
(* DataTable handlers: the view state.                                     *)
(***************************************************************************)
\* The history: the handler that runs, the stored page it finds and, for a
\* removed row, its content, for a rename, the return it takes.
Did(op, arg) == last' = [op |-> op, page |-> currentPage, arg |-> arg]

\* The search terms a user types.
SearchTerms == {<<>>, <<"a">>, <<"b">>}

\* A faulty handleSort, which C7 rejects: the stored page is kept.
handleSortKeepingPage(key) ==
  /\ LET direction ==
           IF sortConfig # Null /\ sortConfig.key = key /\ sortConfig.direction = "asc"
           THEN "desc" ELSE "asc"
     IN  sortConfig' = [key |-> key, direction |-> direction]
  /\ Did("handleSort", <<>>)
  /\ UNCHANGED <<editorVars, uploadVars, searchTerm, currentPage>>

\* A click on a column header.
handleSort(key) ==
  /\ LET direction ==
           IF sortConfig # Null /\ sortConfig.key = key /\ sortConfig.direction = "asc"
           THEN "desc" ELSE "asc"
     IN  sortConfig' = [key |-> key, direction |-> direction]
  /\ currentPage' = 1
  /\ Did("handleSort", <<>>)
  /\ UNCHANGED <<editorVars, uploadVars, searchTerm>>

\* The search input's onChange.
SearchChange(term) ==
  /\ term # searchTerm
  /\ searchTerm' = term
  /\ currentPage' = 1
  /\ Did("SearchChange", <<>>)
  /\ UNCHANGED <<editorVars, uploadVars, sortConfig>>

SetCurrentPage(op, page) ==
  /\ currentPage' = page
  /\ Did(op, <<>>)
  /\ UNCHANGED <<editorVars, uploadVars, sortConfig, searchTerm>>

\* The paging controls of render r.  "<<" and "Previous" are disabled on
\* page 1, "Next" and ">>" only when the stored page equals maxPage.
FirstPage(r) ==
  /\ r.pagingShown /\ currentPage # 1
  /\ SetCurrentPage("FirstPage", 1)

PreviousPage(r) ==
  /\ r.pagingShown /\ currentPage # 1
  /\ SetCurrentPage("PreviousPage", Max(1, currentPage - 1))

GoToPage(r, pageNum) ==
  /\ r.pagingShown /\ pageNum \in r.pageButtons
  /\ SetCurrentPage("GoToPage", pageNum)

NextPage(r) ==
  /\ r.pagingShown /\ currentPage # r.maxPage
  /\ SetCurrentPage("NextPage", Min(r.maxPage, currentPage + 1))

LastPage(r) ==
  /\ r.pagingShown /\ currentPage # r.maxPage
  /\ SetCurrentPage("LastPage", r.maxPage)

(***************************************************************************)
(* DataTable handlers: the structural edits.  Each hands a new TableData   *)
(* to onDataUpdate, which is FileUploadEditor's handleDataUpdate.          *)
(***************************************************************************)
handleDataUpdate(updatedData) == data' = updatedData

\* const { [columnName]: _, ...rest } = row
Without(cells, columnName) ==
  LET Keep(e) == e.k # columnName IN SelectSeq(cells, Keep)

\* A faulty RemoveColumn, which C11 rejects: the rows keep the key.
RemoveColumnOfHeadersOnly(d, columnName) ==
  LET KeepHeader(h) == h # columnName
  IN  [headers |-> SelectSeq(d.headers, KeepHeader), rows |-> d.rows]

RemoveColumn(d, columnName) ==
  LET KeepHeader(h) == h # columnName
      newHeaders == SelectSeq(d.headers, KeepHeader)
      newRows == [i \in DOMAIN d.rows |-> Without(d.rows[i].cells, columnName)]
  IN  [headers |-> newHeaders, rows |-> WithIds(newRows)]

\* A column's remove button.
handleRemoveColumn(columnName) ==
  /\ handleDataUpdate(RemoveColumn(data, columnName))
  /\ Did("handleRemoveColumn", <<>>)
  /\ UNCHANGED <<isLoading, submitVars, uploadVars, viewVars>>

\* A faulty RemoveRowByRef, which C10 rejects: rows are compared by content.
RemoveRowByContent(d, rowRef) ==
  LET Keep(r) == r.cells # rowRef.cells
  IN  [headers |-> d.headers, rows |-> SelectSeq(d.rows, Keep)]

\* data.rows.filter(r => r !== rowRef)
RemoveRowByRef(d, rowRef) ==
  LET Keep(r) == r.id # rowRef.id
  IN  [headers |-> d.headers, rows |-> SelectSeq(d.rows, Keep)]

\* The rows a new render shows are the new table's rows, named afresh.
Rendered(d) == [headers |-> d.headers, rows |-> WithIds(CellsOf(d.rows))]

\* The rows of render r, each with its remove button.
Shown(r) == {r.paginatedRows[i] : i \in DOMAIN r.paginatedRows}

\* A row's remove button: rowRef is a row the current render shows.
handleRemoveRowByRef(rowRef) ==
  /\ handleDataUpdate(Rendered(RemoveRowByRef(data, rowRef)))
  /\ Did("handleRemoveRowByRef", rowRef.cells)
  /\ UNCHANGED <<isLoading, submitVars, uploadVars, viewVars>>

\* The header names a user types when renaming.
NewNames == {<<>>, <<" ">>, <<"a">>, <<"b">>, <<"u", "n", "d", "e", "f", "i", "n", "e", "d">>}

RECURSIVE RenameEntries(_, _, _, _)
RenameEntries(entries, oldName, newName, newRow) ==
  IF entries = <<>> THEN newRow
  ELSE LET e == Head(entries)
       IN  RenameEntries(Tail(entries), oldName, newName,
                         SetProp(newRow, IF e.k = oldName THEN newName ELSE e.k, e.v))

RenameHeader(d, oldName, newName) ==
  LET newHeaders == [i \in DOMAIN d.headers |->
                       IF d.headers[i] = oldName THEN newName ELSE d.headers[i]]
      newRows == [i \in DOMAIN d.rows |->
                    RenameEntries(d.rows[i].cells, oldName, newName, <<>>)]
  IN  [headers |-> newHeaders, rows |-> WithIds(newRows)]

\* A faulty RenameRejected, which C12 rejects: a name in use is accepted.
RenameRejectedWhenBlank(d, oldName, newName) == Trim(newName) = <<>>

\* Whether handleRenameHeader returns before it updates the table.
RenameRejected(d, oldName, newName) ==
  \/ Trim(newName) = <<>>
  \/ newName # oldName /\ newName \in Headers(d)

\* The return handleRenameHeader takes: the first for a blank name, the
\* second for a name in use, the last after the update.
RenameReturn(d, oldName, newName) ==
  IF Trim(newName) = <<>> THEN "blank"
  ELSE IF newName # oldName /\ newName \in Headers(d) THEN "in use"
  ELSE "renamed"

\* The header input's blur or Enter.
handleRenameHeader(oldName, newName) ==
  /\ IF RenameRejected(data, oldName, newName)
     THEN UNCHANGED data
     ELSE handleDataUpdate(RenameHeader(data, oldName, newName))
  /\ Did("handleRenameHeader", RenameReturn(data, oldName, newName))
  /\ UNCHANGED <<isLoading, submitVars, uploadVars, viewVars>>


(***************************************************************************)
(* Parsers (file-upload.tsx).                                              *)
(***************************************************************************)
\* values[index] || "": a missing or empty field is the empty string.
FieldOrEmpty(values, index) ==
  IF index <= Len(values) /\ values[index] # <<>> THEN values[index] ELSE <<>>

\* headers.forEach((header, index) => { row[header] = values[index] || "" })
RECURSIVE ZipRow(_, _, _, _)
ZipRow(headers, values, index, row) ==
  IF index > Len(headers) THEN row
  ELSE ZipRow(headers, values, index + 1,
              SetProp(row, headers[index], Str(FieldOrEmpty(values, index))))

\* line.split(",").map((v) => v.trim())
TrimmedFields(line) ==
  LET fields == Split(line, ",") IN [i \in DOMAIN fields |-> Trim(fields[i])]

\* parseCSV.  text.trim().split("\n") has at least one element, so the
\* "Empty file" error of line 23 is never thrown.
parseCSV(text) ==
  LET lines == Split(Trim(text), "\n")
      headers == TrimmedFields(lines[1])
      rest == Tail(lines)
      rows == [i \in DOMAIN rest |-> ZipRow(headers, TrimmedFields(rest[i]), 1, <<>>)]
  IN  [headers |-> headers, rows |-> WithIds(rows)]

\* A sheet of a workbook: ref is the bounding range sheet["!ref"] (0-based
\* rows and columns, both ends included), cells maps addresses <<r, c>> to
\* cell objects [w, v]: w the formatted text, v the raw value, either one
\* possibly undefined.
CellAt(sheet, r, c) ==
  IF <<r, c>> \in DOMAIN sheet.cells THEN sheet.cells[<<r, c>>] ELSE Null

\* Truthiness of a string-or-undefined value.
Truthy(v) == v # Undefined /\ v # NullValue /\ v # Str(<<>>) /\ v # Num(0)

\* cell && (cell.w || cell.v)
CellHasData(cell) == cell # Null /\ (Truthy(cell.w) \/ Truthy(cell.v))

\* cell ? cell.w || cell.v?.toString() || "" : ""
CellText(cell) ==
  IF cell = Null THEN <<>>
  ELSE IF Truthy(cell.w) THEN cell.w.s
  ELSE IF cell.v # Undefined /\ cell.v # NullValue /\ StringOf(cell.v) # <<>> THEN StringOf(cell.v)
  ELSE <<>>

\* The first row of the range with a cell that has data, as the pair
\* (headerRowIndex, dataStartRowIndex); both stay 0 when there is none.
FindHeaderRow(sheet) ==
  LET range == sheet.ref
      RowHasData(row) == \E col \in range.s.c..range.e.c : CellHasData(CellAt(sheet, row, col))
      rowsWithData == {row \in range.s.r..range.e.r : RowHasData(row)}
  IN  IF rowsWithData = {}
      THEN [headerRowIndex |-> 0, dataStartRowIndex |-> 0]
      ELSE LET first == CHOOSE row \in rowsWithData : \A other \in rowsWithData : row <= other
           IN  [headerRowIndex |-> first, dataStartRowIndex |-> first + 1]

\* headers.push(headerValue || `Column ${col + 1}`) for each column of the
\* range, in order.
SheetHeaders(sheet, headerRowIndex) ==
  LET range == sheet.ref
  IN  [i \in 1..(range.e.c - range.s.c + 1) |->
         LET col == range.s.c + i - 1
             headerValue == CellText(CellAt(sheet, headerRowIndex, col))
         IN  IF headerValue # <<>> THEN headerValue
             ELSE <<"C", "o", "l", "u", "m", "n", " ">> \o NumToString(col + 1)]

\* headers[col] as a property name: the array is indexed by the sheet's
\* column, and an index past its end gives undefined, the name "undefined".
HeaderKey(headers, col) ==
  IF col + 1 <= Len(headers) THEN headers[col + 1]
  ELSE <<"u", "n", "d", "e", "f", "i", "n", "e", "d">>

\* rowData[headers[col]] = value for each column of the range, in order.
RECURSIVE SheetRow(_, _, _, _, _)
SheetRow(sheet, headers, row, col, rowData) ==
  IF col > sheet.ref.e.c THEN rowData
  ELSE SheetRow(sheet, headers, row, col + 1,
                SetProp(rowData, HeaderKey(headers, col), Str(CellText(CellAt(sheet, row, col)))))

\* hasAnyValue
RowHasAnyValue(sheet, row) ==
  \E col \in sheet.ref.s.c..sheet.ref.e.c : CellText(CellAt(sheet, row, col)) # <<>>

RECURSIVE SheetRows(_, _, _)
SheetRows(sheet, headers, row) ==
  IF row > sheet.ref.e.r THEN <<>>
  ELSE (IF RowHasAnyValue(sheet, row)
        THEN <<SheetRow(sheet, headers, row, sheet.ref.s.c, <<>>)>>
        ELSE <<>>) \o SheetRows(sheet, headers, row + 1)

\* parseExcel's onload for a workbook XLSX.read accepted.  A range has at
\* least one column, so headers.length === 0 of line 110 is never true.
parseSheet(sheet) ==
  LET found == FindHeaderRow(sheet)
      headers == SheetHeaders(sheet, found.headerRowIndex)
      rows == SheetRows(sheet, headers, found.dataStartRowIndex)
  IN  [headers |-> headers, rows |-> WithIds(rows)]

(***************************************************************************)
(* Files.  A file has a name, a MIME type and a content: the text that     *)
(* readAsText delivers, or the first sheet of the workbook that XLSX.read  *)
(* delivers (Null when XLSX.read throws).                                  *)
(***************************************************************************)
EndsWith(s, suffix) ==
  Len(s) >= Len(suffix) /\ SubSeq(s, Len(s) - Len(suffix) + 1, Len(s)) = suffix

DotCsv == <<".", "c", "s", "v">>
DotXlsx == <<".", "x", "l", "s", "x">>
DotXls == <<".", "x", "l", "s">>
Spreadsheet == <<"s", "p", "r", "e", "a", "d", "s", "h", "e", "e", "t">>
TextCsv == <<"t", "e", "x", "t", "/", "c", "s", "v">>
TextPlain == <<"t", "e", "x", "t", "/", "p", "l", "a", "i", "n">>

\* The parser handleFile picks: "invalid" and "unsupported" are its two
\* thrown errors.
Dispatch(file) ==
  IF file.type = <<>> /\ ~EndsWith(file.name, DotXlsx) /\ ~EndsWith(file.name, DotXls)
                      /\ ~EndsWith(file.name, DotCsv)
  THEN "invalid"
  ELSE IF EndsWith(file.name, DotXlsx) \/ EndsWith(file.name, DotXls)
          \/ Includes(file.type, Spreadsheet)
  THEN "excel"
  ELSE IF EndsWith(file.name, DotCsv) \/ file.type = TextCsv
  THEN "csv"
  ELSE "unsupported"

CsvFile(text) ==
  [name |-> <<"t">> \o DotCsv, type |-> TextCsv, content |-> text]

ExcelFile(sheet) ==
  [name |-> <<"t">> \o DotXlsx, type |-> <<>>, content |-> sheet]

TextCell(s) == [w |-> Str(s), v |-> Str(s)]
RawCell(s) == [w |-> Undefined, v |-> Str(s)]

Range(sr, sc, er, ec) == [s |-> [r |-> sr, c |-> sc], e |-> [r |-> er, c |-> ec]]

\* a,b / A,1 / A,1 / b,2: two rows equal in content.
CsvDuplicateRows ==
  <<"a", ",", "b", "\n", "A", ",", "1", "\n", "A", ",", "1", "\n", "b", ",", "2">>
\* a,a / 1,2: the same header twice.
CsvDuplicateHeader == <<"a", ",", "a", "\n", "1", ",", "2">>
\* " a , B" / "b": fields to trim and a short row.
CsvShortRow == <<" ", "a", " ", ",", " ", "B", "\n", "b">>
CsvEmpty == <<>>

\* A1:B3, a header row, a data row and an empty row.
SheetPlain ==
  [ref |-> Range(0, 0, 2, 1),
   cells |-> (<<0, 0>> :> TextCell(<<"a">>)) @@ (<<0, 1>> :> TextCell(<<"b">>))
          @@ (<<1, 0>> :> TextCell(<<"B">>)) @@ (<<1, 1>> :> RawCell(<<"a">>))]
\* B1:C2, the range starts at the second column.
SheetShifted ==
  [ref |-> Range(0, 1, 1, 2),
   cells |-> (<<0, 1>> :> TextCell(<<"a">>)) @@ (<<0, 2>> :> TextCell(<<"b">>))
          @@ (<<1, 1>> :> TextCell(<<"A">>)) @@ (<<1, 2>> :> TextCell(<<"B">>))]
\* A1:B3, an empty first row and a header row with a blank cell.
SheetBlankHeader ==
  [ref |-> Range(0, 0, 2, 1),
   cells |-> (<<1, 1>> :> TextCell(<<"b">>))
          @@ (<<2, 0>> :> TextCell(<<"a">>)) @@ (<<2, 1>> :> TextCell(<<"a">>))]
\* A sheet with no cell: sheet["!ref"] is undefined and the range is A1.
SheetNoCells == [ref |-> Range(0, 0, 0, 0), cells |-> <<>>]

\* The files a user uploads.
Files ==
  {CsvFile(CsvDuplicateRows), CsvFile(CsvDuplicateHeader), CsvFile(CsvShortRow),
   CsvFile(CsvEmpty),
   ExcelFile(SheetPlain), ExcelFile(SheetShifted), ExcelFile(SheetBlankHeader),
   ExcelFile(SheetNoCells), ExcelFile(Null),
   [name |-> <<"t", ".", "t", "x", "t">>, type |-> TextPlain, content |-> <<>>],
   [name |-> <<"t">>, type |-> <<>>, content |-> <<>>]}

\* What a read that delivered the file's content resolves to: the parsed
\* table, or Null when the parser throws.
Parse(file) ==
  IF Dispatch(file) = "csv" THEN parseCSV(file.content)
  ELSE IF file.content = Null THEN Null
  ELSE parseSheet(file.content)

(***************************************************************************)
(* FileUploadEditor and FileUpload.                                        *)
(***************************************************************************)
\* A faulty handleFileUpload, which C16 rejects: a table that is loaded is
\* kept.
handleFileUploadWhenEmpty(uploadedData) ==
  /\ data' = (IF data = Null THEN uploadedData ELSE data)
  /\ submitMessage' = ""
  /\ isLoading' = FALSE
  /\ UNCHANGED <<isSubmitting, submissionProgress, fetching, intervals, resetPending>>
  /\ IF data = Null
     THEN sortConfig' = Null /\ searchTerm' = <<>> /\ currentPage' = 1
     ELSE UNCHANGED viewVars

\* handleFileUpload.  A DataTable that mounts starts from its initial state;
\* one that is mounted keeps its state when its data prop changes.
handleFileUpload(uploadedData) ==
  /\ data' = uploadedData
  /\ submitMessage' = ""
  /\ isLoading' = FALSE
  /\ UNCHANGED <<isSubmitting, submissionProgress, fetching, intervals, resetPending>>
  /\ IF data = Null
     THEN sortConfig' = Null /\ searchTerm' = <<>> /\ currentPage' = 1
     ELSE UNCHANGED viewVars

\* handleFile up to its first await: the error is cleared, the overlay is
\* shown, and a file of no accepted format is refused at once.
StartUpload(file) ==
  /\ data = Null
  /\ Len(reads) < MaxReads
  /\ isLoading' = TRUE
  /\ IF Dispatch(file) \in {"invalid", "unsupported"}
     THEN error' = TRUE /\ UNCHANGED reads
     ELSE error' = FALSE /\ reads' = Append(reads, [file |-> file, live |-> TRUE])
  /\ Did("handleFile", <<>>)
  /\ UNCHANGED <<data, submitVars, viewVars>>

RemoveAt(s, i) == SubSeq(s, 1, i - 1) \o SubSeq(s, i + 1, Len(s))

\* The reads left when the FileUpload that started them unmounts: its
\* setError no longer shows.
Orphaned(rs) == [j \in DOMAIN rs |-> [file |-> rs[j].file, live |-> FALSE]]

\* reader.onload of read i, and handleFile after its await: the table goes
\* to onFileUpload (the FileUpload, if mounted, unmounts), a parser's error
\* to setError.
CompleteRead(i) ==
  /\ i \in DOMAIN reads
  /\ LET parsed == Parse(reads[i].file)
     IN  IF parsed # Null
         THEN /\ handleFileUpload(parsed)
              /\ reads' = Orphaned(RemoveAt(reads, i))
              /\ error' = FALSE
         ELSE /\ reads' = RemoveAt(reads, i)
              /\ error' = (reads[i].live \/ error)
              /\ UNCHANGED <<editorVars, viewVars>>
  /\ Did("CompleteRead", <<>>)

\* reader.onerror of read i: the promise rejects and handleFile's catch
\* calls setError.
FailRead(i) ==
  /\ i \in DOMAIN reads
  /\ reads' = RemoveAt(reads, i)
  /\ error' = (reads[i].live \/ error)
  /\ Did("FailRead", <<>>)
  /\ UNCHANGED <<editorVars, viewVars>>

\* The "Upload New File" button: setData(null).  The DataTable unmounts and
\* a new FileUpload mounts.
UploadNewFile ==
  /\ data # Null
  /\ data' = Null
  /\ sortConfig' = Null /\ searchTerm' = <<>> /\ currentPage' = 1
  /\ error' = FALSE
  /\ Did("UploadNewFile", <<>>)
  /\ UNCHANGED <<isLoading, submitVars, reads>>

(***************************************************************************)
(* Spec: the editor from its first render.                                 *)
(***************************************************************************)
\* FileUploadEditor's submission state before any submission.
InitSubmission ==
  /\ isSubmitting = FALSE
  /\ submitMessage = ""
  /\ submissionProgress = 0
  /\ fetching = FALSE
  /\ intervals = 0
  /\ resetPending = FALSE

InitView ==
  /\ sortConfig = Null
  /\ searchTerm = <<>>
  /\ currentPage = 1

Init ==
  /\ data = Null
  /\ isLoading = FALSE
  /\ InitSubmission
  /\ reads = <<>>
  /\ error = FALSE
  /\ InitView
  /\ last = [op |-> "mount", page |-> 1, arg |-> <<>>]

Mounted == data # Null

\* The paging controls are not rendered for the tables of Files, which
\* have at most 30 rows: SpecPage has them.  The submission is in
\* SpecSubmit: it reads and writes no variable of these actions but data,
\* which a success clears as UploadNewFile does.
Next ==
  \/ \E file \in Files : StartUpload(file)
  \/ \E i \in DOMAIN reads : CompleteRead(i)
  \/ \E i \in DOMAIN reads : FailRead(i)
  \/ UploadNewFile
  \/ Mounted /\ \E key \in Headers(data) : handleSort(key)
  \/ Mounted /\ \E term \in SearchTerms : SearchChange(term)
  \/ Mounted /\ \E columnName \in Headers(data) : handleRemoveColumn(columnName)
  \/ Mounted /\ \E rowRef \in Shown(Render) : handleRemoveRowByRef(rowRef)
  \/ Mounted /\ \E oldName \in Headers(data), newName \in NewNames :
       handleRenameHeader(oldName, newName)

Spec == Init /\ [][Next]_vars

(***************************************************************************)
(* SpecPage: the editor with a generated table loaded, large enough for    *)
(* several pages: countA rows "a" followed by countB rows "B", one column. *)
(***************************************************************************)
ColumnC == <<"c">>

GenTable(countA, countB) ==
  [headers |-> <<ColumnC>>,
   rows |-> WithIds([i \in 1..(countA + countB) |->
              <<[k |-> ColumnC, v |-> Str(IF i <= countA THEN <<"a">> ELSE <<"B">>)]>>])]

InitPage ==
  /\ \E countA \in 0..MaxRows, countB \in {0, 1} : data = GenTable(countA, countB)
  /\ isLoading = FALSE
  /\ InitSubmission
  /\ reads = <<>>
  /\ error = FALSE
  /\ InitView
  /\ last = [op |-> "CompleteRead", page |-> 1, arg |-> <<>>]

\* The events of the mounted DataTable, each on the current render.
NextPaged ==
  \/ Mounted /\ \E key \in Headers(data) : handleSort(key)
  \/ Mounted /\ \E term \in SearchTerms : SearchChange(term)
  \/ Mounted /\ FirstPage(Render)
  \/ Mounted /\ PreviousPage(Render)
  \/ Mounted /\ \E pageNum \in Render.pageButtons : GoToPage(Render, pageNum)
  \/ Mounted /\ NextPage(Render)
  \/ Mounted /\ LastPage(Render)
  \/ Mounted /\ \E columnName \in Headers(data) : handleRemoveColumn(columnName)
  \/ Mounted /\ \E rowRef \in Shown(Render) : handleRemoveRowByRef(rowRef)

SpecPage == InitPage /\ [][NextPaged]_vars

(***************************************************************************)
(* SpecQuery: the DataTable on any small table its props allow (a row is   *)
(* a Record<string, any>): one column whose value is a string, a number,   *)
(* null, undefined or absent.                                              *)
(***************************************************************************)
ColumnA == <<"a">>

QueryValues ==
  {Str(<<"a">>), Str(<<"A">>), Str(<<"b">>), Num(2), Num(10), NullValue, Undefined}

\* The property lists of a row: the column with a value, or no column.
QueryCells == {<<>>} \cup {<<[k |-> ColumnA, v |-> value]>> : value \in QueryValues}

QueryTables ==
  {[headers |-> <<ColumnA>>, rows |-> WithIds(cellsSeq)] :
     cellsSeq \in UNION {[1..n -> QueryCells] : n \in 0..MaxQueryRows}}

\* The search terms typed into the search box of such a table.
QueryTerms == SearchTerms \cup {<<"B">>, <<"n">>}

InitQuery ==
  /\ data \in QueryTables
  /\ isLoading = FALSE
  /\ InitSubmission
  /\ reads = <<>>
  /\ error = FALSE
  /\ InitView
  /\ last = [op |-> "CompleteRead", page |-> 1, arg |-> <<>>]

NextQuery ==
  \/ \E key \in Headers(data) : handleSort(key)
  \/ \E term \in QueryTerms : SearchChange(term)

SpecQuery == InitQuery /\ [][NextQuery]_vars

(***************************************************************************)
(* SpecCsv: the upload of CSV files written from fields: a header line of  *)
(* one or two fields and up to MaxCsvLines lines of one or two fields.     *)
(***************************************************************************)
RECURSIVE JoinWith(_, _)
JoinWith(parts, sep) ==
  IF parts = <<>> THEN <<>>
  ELSE IF Len(parts) = 1 THEN parts[1]
  ELSE parts[1] \o <<sep>> \o JoinWith(Tail(parts), sep)

\* The fields of a header line and of a line, as they stand in the file.
CsvHeaderFields == {<<"a">>, <<" ", "b">>}
CsvLineFields == {<<>>, <<"1">>, <<" ", "2", " ">>}

SeqsUpTo(S, lo, hi) == UNION {[1..n -> S] : n \in lo..hi}

\* A file as written: the fields of its header line and of its lines.  The
\* last line is not blank: a file that ends with a line break has no
\* further line.
CsvInputs ==
  {input \in [header : SeqsUpTo(CsvHeaderFields, 1, 2),
              lines : SeqsUpTo(SeqsUpTo(CsvLineFields, 1, 2), 0, MaxCsvLines)] :
     input.lines = <<>> \/ input.lines[Len(input.lines)] # <<(<<>>)>>}

\* The text of the file.
TextOf(input) ==
  JoinWith(<<JoinWith(input.header, ",")>>
             \o [j \in DOMAIN input.lines |-> JoinWith(input.lines[j], ",")], "\n")

InitCsv == Init

\* One file is read at a time.
NextCsv ==
  \/ \E input \in CsvInputs : reads = <<>> /\ StartUpload(CsvFile(TextOf(input)))
  \/ \E i \in DOMAIN reads : CompleteRead(i)
  \/ \E i \in DOMAIN reads : FailRead(i)
  \/ UploadNewFile

SpecCsv == InitCsv /\ [][NextCsv]_vars

(***************************************************************************)
(* SpecDispatch: the upload of files of every pairing of a name and a MIME *)
(* type; the content is what the reader of the chosen parser delivers.     *)
(***************************************************************************)
FileNames ==
  {<<"t">>, <<"t">> \o DotCsv, <<"t">> \o DotXlsx, <<"t">> \o DotXls,
   <<"t", ".", "t", "x", "t">>}

\* A MIME type that holds "spreadsheet".
SpreadsheetType == <<"x", "/">> \o Spreadsheet \o <<"m", "l">>

FileTypes == {<<>>, TextCsv, TextPlain, SpreadsheetType}

DispatchFiles ==
  {[name |-> pair[1], type |-> pair[2],
    content |-> IF Dispatch([name |-> pair[1], type |-> pair[2]]) = "csv"
                THEN CsvShortRow ELSE SheetPlain] : pair \in FileNames \X FileTypes}

InitDispatch == Init

NextDispatch ==
  \/ \E file \in DispatchFiles : StartUpload(file)
  \/ \E i \in DOMAIN reads : CompleteRead(i)
  \/ \E i \in DOMAIN reads : FailRead(i)
  \/ UploadNewFile

SpecDispatch == InitDispatch /\ [][NextDispatch]_vars

\* A read in flight ends: the browser delivers the content or an error.
ReadEnds == \E i \in DOMAIN reads : CompleteRead(i) \/ FailRead(i)

\* SpecLoading: the same uploads, every read ending at last.
SpecLoading == InitDispatch /\ [][NextDispatch]_vars /\ WF_vars(ReadEnds)

(***************************************************************************)
(* SpecEdit: the DataTable on the table of one upload, with no further     *)
(* upload: the view and the structural edits.                              *)
(***************************************************************************)
\* The files of Files that give a table.
ParsedFiles == {file \in Files : Dispatch(file) \in {"csv", "excel"} /\ Parse(file) # Null}

\* The state after the upload of one file completed.
InitEdit ==
  /\ \E file \in ParsedFiles : data = Parse(file)
  /\ isLoading = FALSE
  /\ InitSubmission
  /\ reads = <<>>
  /\ error = FALSE
  /\ InitView
  /\ last = [op |-> "mount", page |-> 1, arg |-> <<>>]

NextEdit ==
  \/ \E key \in Headers(data) : handleSort(key)
  \/ \E term \in SearchTerms : SearchChange(term)
  \/ \E columnName \in Headers(data) : handleRemoveColumn(columnName)
  \/ \E rowRef \in Shown(Render) : handleRemoveRowByRef(rowRef)
  \/ \E oldName \in Headers(data), newName \in NewNames :
       handleRenameHeader(oldName, newName)

SpecEdit == InitEdit /\ [][NextEdit]_vars

(***************************************************************************)
(* SpecRace: uploads of three files that parse, with up to MaxReads reads  *)
(* in flight at once, and edits of the table between the completions.      *)
(***************************************************************************)
RaceFiles == {CsvFile(CsvDuplicateRows), CsvFile(CsvShortRow), ExcelFile(SheetPlain)}

InitRace == Init

NextRace ==
  \/ \E file \in RaceFiles : StartUpload(file)
  \/ \E i \in DOMAIN reads : CompleteRead(i)
  \/ \E i \in DOMAIN reads : FailRead(i)
  \/ UploadNewFile
  \/ Mounted /\ \E key \in Headers(data) : handleSort(key)
  \/ Mounted /\ \E columnName \in Headers(data) : handleRemoveColumn(columnName)

SpecRace == InitRace /\ [][NextRace]_vars

(***************************************************************************)
(* Submission (FileUploadEditor's handleSubmit) and SpecSubmit: the editor *)
(* with one file to upload and the "Submit Data" button.                   *)
(***************************************************************************)
\* What the interval adds to the progress, Math.random() * 12, in whole
\* numbers.
ProgressSteps == {0, 5, 11}

\* The progress below which the interval still adds to it.
PROGRESS_CEILING == 85

\* handleSubmit up to its await of fetch.  The button is disabled while
\* isSubmitting.  An interval that is never cleared runs on, so the number
\* of intervals is capped by MaxIntervals.
handleSubmit ==
  /\ data # Null
  /\ ~isSubmitting
  /\ intervals < MaxIntervals
  /\ isSubmitting' = TRUE
  /\ submitMessage' = ""
  /\ submissionProgress' = 0
  /\ intervals' = intervals + 1
  /\ fetching' = TRUE
  /\ Did("handleSubmit", <<>>)
  /\ UNCHANGED <<data, isLoading, resetPending, uploadVars, viewVars>>

\* A tick of a progress interval.
ProgressTick(step) ==
  /\ intervals > 0
  /\ submissionProgress' =
       (IF submissionProgress < PROGRESS_CEILING THEN submissionProgress + step
        ELSE submissionProgress)
  /\ Did("progressInterval", <<>>)
  /\ UNCHANGED <<data, isLoading, isSubmitting, submitMessage, fetching, intervals,
                 resetPending, uploadVars, viewVars>>

\* handleSubmit's catch.
SubmitCatch ==
  /\ submissionProgress' = 0
  /\ submitMessage' = "failure"
  /\ isSubmitting' = FALSE
  /\ UNCHANGED <<data, isLoading, resetPending, uploadVars, viewVars>>

\* The outcomes of the request: "network", fetch rejects; "status", a
\* response that is not ok; "json", an ok response whose body is no JSON;
\* "ok".
Outcomes == {"network", "status", "json", "ok"}

\* handleSubmit after its await of fetch.  clearInterval is reached only
\* when fetch resolves.  After a success the table is cleared: the
\* DataTable, if mounted, unmounts and a new FileUpload mounts.
SubmitResponse(outcome) ==
  /\ fetching
  /\ fetching' = FALSE
  /\ intervals' = (IF outcome = "network" THEN intervals ELSE intervals - 1)
  /\ IF outcome = "ok"
     THEN /\ submissionProgress' = 100
          /\ submitMessage' = "success"
          /\ data' = Null
          /\ sortConfig' = Null /\ searchTerm' = <<>> /\ currentPage' = 1
          /\ error' = (IF data = Null THEN error ELSE FALSE)
          /\ resetPending' = TRUE
          /\ UNCHANGED <<isLoading, isSubmitting, reads>>
     ELSE SubmitCatch
  /\ Did("SubmitResponse", outcome)

\* The timeout set after a success.
SubmitReset ==
  /\ resetPending
  /\ resetPending' = FALSE
  /\ submissionProgress' = 0
  /\ isSubmitting' = FALSE
  /\ Did("SubmitReset", <<>>)
  /\ UNCHANGED <<data, isLoading, submitMessage, fetching, intervals, uploadVars, viewVars>>

SubmitFiles == {CsvFile(CsvDuplicateRows)}

InitSubmit == Init

NextSubmit ==
  \/ \E file \in SubmitFiles : StartUpload(file)
  \/ \E i \in DOMAIN reads : CompleteRead(i)
  \/ \E i \in DOMAIN reads : FailRead(i)
  \/ UploadNewFile
  \/ handleSubmit
  \/ \E step \in ProgressSteps : ProgressTick(step)
  \/ \E outcome \in Outcomes : SubmitResponse(outcome)
  \/ SubmitReset

SpecSubmit == InitSubmit /\ [][NextSubmit]_vars

(***************************************************************************)
(* The claims.                                                             *)
(***************************************************************************)
\* The ids of a sequence of rows, in order.
IdsOf(rows) == [i \in DOMAIN rows |-> rows[i].id]

\* Where the row named id stands in rows.
PositionOf(rows, id) == CHOOSE i \in DOMAIN rows : rows[i].id = id

\* ceil((total - 5) / 30), as the least number of pages of 30 rows that hold
\* the rows before the tail.
PagesBeforeTail(total) ==
  CHOOSE m \in 0..total : m * 30 >= total - 5 /\ (m = 0 \/ (m - 1) * 30 < total - 5)

\* C1: with more than 35 filtered rows and a stored page >= 1, the rows
\* shown are rows[(page-1)*30 .. min(page*30, total-5)) followed by the last
\* 5 rows, page being the stored page clamped into [1, ceil((total-5)/30)];
\* the last 5 rows are shown on every page and no row is shown twice.
C1_PinnedTailPagination ==
  Mounted =>
    LET r == Render
        rows == r.processedRows
        total == Len(rows)
        pages == PagesBeforeTail(total)
        page == IF currentPage > pages THEN pages ELSE IF currentPage < 1 THEN 1 ELSE currentPage
        from == (page - 1) * 30
        to == IF page * 30 < total - 5 THEN page * 30 ELSE total - 5
        shown == r.paginatedRows
    IN  (total > 35 /\ currentPage >= 1) =>
          /\ Len(shown) = (to - from) + 5
          /\ \A i \in 1..(to - from) : shown[i] = rows[from + i]
          /\ \A i \in 1..5 : shown[(to - from) + i] = rows[total - 5 + i]
          /\ \A i, j \in DOMAIN shown : i # j => shown[i].id # shown[j].id

\* C1 witness: 65 filtered rows leave 2 pages while the stored page is 3, and
\* the render shows the second page and the tail.
C1_Witness ==
  /\ Mounted
  /\ currentPage = 3
  /\ Render.totalFilteredRows = 65
  /\ Len(Render.paginatedRows) = 35

\* C2: with at most 35 filtered rows every filtered row is shown, no gap
\* marker is shown and no paging control is shown.
C2_NoPagingUpTo35 ==
  Mounted =>
    LET r == Render
    IN  r.totalFilteredRows <= 35 =>
          /\ r.paginatedRows = r.processedRows
          /\ r.gapMarkerAt = {}
          /\ ~r.pagingShown

\* C3: whenever the gap marker is shown, its N is the number of filtered
\* rows between the last row of the page body and the first row of the tail.
C3_GapCountExact ==
  Mounted =>
    LET r == Render
    IN  \A index \in r.gapMarkerAt :
          r.gapMarkerCount =
            PositionOf(r.processedRows, r.paginatedRows[index + 1].id)
              - PositionOf(r.processedRows, r.paginatedRows[index].id) - 1

\* The rows whose value for key is defined, in order.
DefinedRows(rows, key) ==
  LET IsDefined(row) == ~IsNullish(Get(row, key)) IN SelectSeq(rows, IsDefined)

Reverse(s) == [i \in 1..Len(s) |-> s[Len(s) + 1 - i]]

\* C4: under any sort key and direction, every row whose value for the sort
\* key is null or absent stands after every row whose value is defined.
C4_NullsLast ==
  (Mounted /\ sortConfig # Null) =>
    LET rows == Render.processedRows
    IN  \A i, j \in DOMAIN rows :
          (IsNullish(Get(rows[i], sortConfig.key)) /\ ~IsNullish(Get(rows[j], sortConfig.key)))
            => j < i

\* C4 witness: a descending sort of a table whose first row has no value for
\* the key and whose second row has one.
C4_Witness ==
  /\ Mounted /\ sortConfig # Null /\ sortConfig.direction = "desc" /\ searchTerm = <<>>
  /\ Len(data.rows) >= 2
  /\ IsNullish(Get(data.rows[1], sortConfig.key))
  /\ ~IsNullish(Get(data.rows[2], sortConfig.key))

\* The ascending result for the table, search term and sort key of the state.
AscendingRows ==
  ProcessRows(data.rows, searchTerm, [key |-> sortConfig.key, direction |-> "asc"])

\* C5 as stated: restricted to the rows whose sort-key value is defined,
\* the descending result is the exact reverse of the ascending result.
C5_DescendingIsReverse ==
  (Mounted /\ sortConfig # Null /\ sortConfig.direction = "desc") =>
    DefinedRows(Render.processedRows, sortConfig.key)
      = Reverse(DefinedRows(AscendingRows, sortConfig.key))

\* The defined sort-key values of rows are all strings or all numbers, and
\* no two of them are equal, strings compared case-insensitively.
DistinctKeys(rows, key) ==
  LET defined == DefinedRows(rows, key)
      Value(i) == Get(defined[i], key)
  IN  /\ \/ \A i \in DOMAIN defined : Value(i).t = "string"
         \/ \A i \in DOMAIN defined : Value(i).t = "number"
      /\ \A i, j \in DOMAIN defined :
           i # j => ToLowerCase(StringOf(Value(i))) # ToLowerCase(StringOf(Value(j)))

\* C5 amended: the descending result is the exact reverse of the ascending
\* one, restricted to the rows with a defined sort-key value, whenever those
\* values are all strings or all numbers and pairwise different
\* (case-insensitively).
C5_DescendingIsReverseOfDistinct ==
  (Mounted /\ sortConfig # Null /\ sortConfig.direction = "desc"
     /\ DistinctKeys(FilterRows(data.rows, searchTerm), sortConfig.key)) =>
    DefinedRows(Render.processedRows, sortConfig.key)
      = Reverse(DefinedRows(AscendingRows, sortConfig.key))

\* C5 witness: a descending sort of three rows "a", absent, "b".
C5_Witness ==
  /\ Mounted /\ sortConfig # Null /\ sortConfig.direction = "desc" /\ searchTerm = <<>>
  /\ Len(data.rows) = 3
  /\ Get(data.rows[1], sortConfig.key) = Str(<<"a">>)
  /\ Get(data.rows[2], sortConfig.key) = Undefined
  /\ Get(data.rows[3], sortConfig.key) = Str(<<"b">>)
  /\ IdsOf(Render.processedRows) = <<3, 1, 2>>

\* Some value of the row, as a string, holds the term, letter case aside.
HoldsTerm(row, term) ==
  \E e \in DOMAIN row.cells :
    LET s == StringOf(row.cells[e].v)
    IN  \E offset \in 0..(Len(s) - Len(term)) :
          \A j \in 1..Len(term) : LowerChar(s[offset + j]) = LowerChar(term[j])

\* C6: under a non-empty search term the filtered rows are exactly the rows
\* with a value that holds the term case-insensitively, in their original
\* order; when none does, no row is shown and the "no rows match" row is;
\* under an empty term the filtered count is rows.length.
C6_FilterExact ==
  Mounted =>
    LET r == Render
        kept == FilterRows(data.rows, searchTerm)
        matching == {i \in DOMAIN data.rows : HoldsTerm(data.rows[i], searchTerm)}
    IN  /\ searchTerm # <<>> =>
             /\ Len(kept) = Cardinality(matching)
             /\ \A i \in DOMAIN kept : PositionOf(data.rows, kept[i].id) \in matching
             /\ \A i \in DOMAIN kept : kept[i] = data.rows[PositionOf(data.rows, kept[i].id)]
             /\ \A i, j \in DOMAIN kept :
                  i < j => PositionOf(data.rows, kept[i].id) < PositionOf(data.rows, kept[j].id)
             /\ {r.processedRows[i] : i \in DOMAIN r.processedRows} = {kept[i] : i \in DOMAIN kept}
             /\ r.totalFilteredRows = Len(kept)
             /\ matching = {} => (r.paginatedRows = <<>> /\ r.noMatchShown)
        /\ searchTerm = <<>> => r.totalFilteredRows = Len(data.rows)

\* C6 witness: the term "B" keeps a row "b" and drops another row.
C6_Witness ==
  /\ Mounted /\ searchTerm = <<"B">>
  /\ \E i \in DOMAIN Render.processedRows :
       Get(Render.processedRows[i], ColumnA) = Str(<<"b">>)
  /\ 0 < Render.totalFilteredRows /\ Render.totalFilteredRows < Len(data.rows)

\* C7: a step that changes the search term or the sort configuration leaves
\* the stored page at 1.
C7_PageResetOnQueryChange ==
  [][(searchTerm' # searchTerm \/ sortConfig' # sortConfig) => currentPage' = 1]_vars

\* C7 witness: a sort or a search found the stored page above 1 and left 1.
C7_Witness ==
  /\ last.op \in {"handleSort", "SearchChange"}
  /\ last.page > 1
  /\ currentPage = 1

\* C8: the headers of a table hold no name twice.
C8_HeadersUnique ==
  Mounted => \A i, j \in DOMAIN data.headers : i # j => data.headers[i] # data.headers[j]

\* C9: the property names of every row are among the headers.
C9_RowKeysAmongHeaders ==
  Mounted => \A i \in DOMAIN data.rows : Keys(data.rows[i].cells) \subseteq Headers(data)

\* A row object that is no row of the table, with the content of row i.
CloneOf(i) == [id |-> 0, cells |-> data.rows[i].cells]

\* C10: removing a shown row drops exactly that row: one row fewer, the
\* other rows (a row of equal content among them) in their order, the
\* headers as they were; a row object that is no row of the table, whatever
\* its content, removes nothing.
C10_RemoveRowExact ==
  /\ [][last'.op = "handleRemoveRowByRef" =>
          \E i \in DOMAIN data.rows :
            /\ data.rows[i] \in Shown(Render)
            /\ data.rows[i].cells = last'.arg
            /\ data'.headers = data.headers
            /\ Len(data'.rows) = Len(data.rows) - 1
            /\ CellsOf(data'.rows) =
                 [k \in 1..(Len(data.rows) - 1) |->
                    IF k < i THEN data.rows[k].cells ELSE data.rows[k + 1].cells]]_vars
  /\ [](Mounted => \A i \in DOMAIN data.rows : RemoveRowByRef(data, CloneOf(i)) = data)

\* C10 witness: a row was removed and a row of the same content is kept.
C10_Witness ==
  /\ Mounted
  /\ last.op = "handleRemoveRowByRef"
  /\ \E i \in DOMAIN data.rows : data.rows[i].cells = last.arg

\* The name "undefined".
UndefinedName == <<"u", "n", "d", "e", "f", "i", "n", "e", "d">>

\* The names removeColumn is tried with: the headers, and the names a user
\* types, some of which are no header.
ColumnNames == Headers(data) \cup NewNames

\* How many of the first k headers are name.
CountBefore(headers, name, k) ==
  Cardinality({j \in 1..(k - 1) : headers[j] = name})

\* after is before without the column name: name is no header of it, the
\* other headers stand in their order, and every row has its other keys with
\* their values.
ColumnDropped(before, after, name) ==
  /\ Len(after.headers) = Len(before.headers) - CountBefore(before.headers, name, Len(before.headers) + 1)
  /\ \A k \in DOMAIN before.headers :
       before.headers[k] # name =>
         after.headers[k - CountBefore(before.headers, name, k)] = before.headers[k]
  /\ Len(after.rows) = Len(before.rows)
  /\ \A i \in DOMAIN before.rows :
       /\ Keys(after.rows[i].cells) = Keys(before.rows[i].cells) \ {name}
       /\ \A key \in Keys(after.rows[i].cells) :
            Get(after.rows[i], key) = Get(before.rows[i], key)

\* A step of handleRemoveColumn drops one of the headers.
RemoveColumnStep ==
  last'.op = "handleRemoveColumn" =>
    \E name \in Headers(data) : ColumnDropped(data, data', name)

\* Removing a column twice gives what removing it once gives.
RemoveColumnIdempotent ==
  \A name \in ColumnNames :
    RemoveColumn(RemoveColumn(data, name), name) = RemoveColumn(data, name)

Blank(name) == \A i \in DOMAIN name : name[i] \in {" ", "\t", "\n", "\r"}

\* The name is one of the headers.
InUse(name) == \E k \in DOMAIN data.headers : data.headers[k] = name

\* C12: a rename to a blank name, or to a name in use that is not the old
\* name, leaves the table as it is: headers and rows are unchanged.
C12_RejectedRenameKeepsTable ==
  [][(Mounted /\ last'.op = "handleRenameHeader") =>
       \A oldName \in Headers(data), newName \in NewNames :
         ((Blank(newName) \/ (newName # oldName /\ InUse(newName)))
            /\ handleRenameHeader(oldName, newName))
           => data' = data]_vars

\* C12 witness: a rename to the name of another header was tried and the
\* handler returned at its second check.
C12_Witness ==
  /\ Mounted
  /\ last.op = "handleRenameHeader"
  /\ last.arg = "in use"

\* The field without the spaces at its ends.
Stripped(field) ==
  LET inner == {i \in DOMAIN field : field[i] # " "}
  IN  IF inner = {} THEN <<>>
      ELSE SubSeq(field, CHOOSE i \in inner : \A j \in inner : i <= j,
                         CHOOSE i \in inner : \A j \in inner : j <= i)

\* The table has the stripped header fields as headers and one row for each
\* line, in order, that maps header i to the stripped field i of the line,
\* or to the empty string when the line has no field i.
ParsedAs(table, input) ==
  /\ table.headers = [i \in DOMAIN input.header |-> Stripped(input.header[i])]
  /\ Len(table.rows) = Len(input.lines)
  /\ \A j \in DOMAIN input.lines : \A i \in DOMAIN input.header :
       j \in DOMAIN table.rows =>
         Get(table.rows[j], Stripped(input.header[i])) =
           Str(IF i <= Len(input.lines[j]) THEN Stripped(input.lines[j][i]) ELSE <<>>)

\* C13: the table of a CSV file with a header line of n fields and k lines
\* has the trimmed header fields as headers and exactly k rows in line
\* order, each mapping header i to the trimmed field i of its line, a
\* missing field being the empty string.
C13_CsvRowsByPosition ==
  [][(last'.op = "CompleteRead" /\ Len(reads) = 1) =>
       \A input \in CsvInputs :
         reads[1].file.content = TextOf(input) =>
           (data' # Null /\ ParsedAs(data', input))]_vars

\* The file's input is empty: a text of white space only, or a sheet with no
\* cell that has data.
EmptyInput(file) ==
  IF Dispatch(file) = "csv" THEN Blank(file.content)
  ELSE /\ file.content # Null
       /\ \A address \in DOMAIN file.content.cells : ~CellHasData(file.content.cells[address])

\* C14: the read of an empty input delivers no table to the editor.
C14_EmptyInputGivesNoTable ==
  [][last'.op = "CompleteRead" =>
       \A i \in DOMAIN reads :
         (EmptyInput(reads[i].file) /\ CompleteRead(i)) => data' = data]_vars

\* The parser the claim gives a name: by its extension, if it has one of the
\* three.
ByExtension(name) ==
  IF Len(name) >= 4 /\ SubSeq(name, Len(name) - 3, Len(name)) = <<".", "c", "s", "v">> THEN "csv"
  ELSE IF Len(name) >= 4 /\ SubSeq(name, Len(name) - 3, Len(name)) = <<".", "x", "l", "s">> THEN "excel"
  ELSE IF Len(name) >= 5 /\ SubSeq(name, Len(name) - 4, Len(name)) = <<".", "x", "l", "s", "x">> THEN "excel"
  ELSE "none"

\* The parser the claim gives a MIME type.
ByType(type) ==
  IF \E k \in 0..(Len(type) - 11) :
       SubSeq(type, k + 1, k + 11) = <<"s", "p", "r", "e", "a", "d", "s", "h", "e", "e", "t">>
  THEN "excel"
  ELSE IF type = <<"t", "e", "x", "t", "/", "c", "s", "v">> THEN "csv"
  ELSE "none"

\* C15: the extension of the name decides the parser whatever the MIME type
\* is; the MIME type decides when the name has none of the extensions; any
\* other file is refused with a format error.
C15_ExtensionBeforeType ==
  [][last'.op = "handleFile" =>
       \A file \in DispatchFiles :
         StartUpload(file) =>
           LET expected == IF ByExtension(file.name) # "none" THEN ByExtension(file.name)
                           ELSE ByType(file.type)
           IN  IF expected = "none"
               THEN Dispatch(file) \in {"invalid", "unsupported"} /\ error' /\ reads' = reads
               ELSE Dispatch(file) = expected /\ ~error' /\ Len(reads') = Len(reads) + 1]_vars

\* C16: whenever a read completes with a table, whatever its place among the
\* reads in flight and whatever table the editor holds, edited or not, the
\* editor holds the table of that read afterwards: of two reads that both
\* complete, the one that completes last gives the table.
C16_LastCompletionWins ==
  [][last'.op = "CompleteRead" =>
       \E i \in DOMAIN reads :
         /\ Len(reads') = Len(reads) - 1
         /\ \A j \in DOMAIN reads' : reads'[j].file = reads[IF j < i THEN j ELSE j + 1].file
         /\ data' = Parse(reads[i].file)]_vars

\* C16 witness: the last of the reads in flight completed while a sorted
\* table was shown, and its table replaced that one.
C16_Witness ==
  /\ Mounted
  /\ last.op = "CompleteRead"
  /\ reads = <<>>
  /\ sortConfig # Null
  /\ data = Parse(CsvFile(CsvShortRow))

\* C17: a submission that fails leaves the table as it is, ends isSubmitting
\* and sets the progress to 0, and the progress stays 0 until the next
\* submission starts.
C17_FailedSubmitResetsProgress ==
  /\ [][(last'.op = "SubmitResponse" /\ last'.arg # "ok") =>
          (data' = data /\ ~isSubmitting' /\ submissionProgress' = 0)]_vars
  /\ []((submitMessage = "failure" /\ ~isSubmitting) => submissionProgress = 0)

\* C18: the "Processing file..." overlay that an upload shows is hidden at
\* last, whether the upload gives a table or an error; no state has the
\* overlay shown with no read in flight and no table loaded.
C18_LoadingEnds ==
  /\ isLoading ~> ~isLoading
  /\ [](~(isLoading /\ reads = <<>> /\ data = Null))

\* C19: while a table is shown the stored page lies between 1 and maxPage,
\* whatever pages, searches, sorts and removals came before.
C19_StoredPageInBounds ==
  Mounted => (1 <= currentPage /\ currentPage <= Render.maxPage)

\* C20: while a table is shown a present sortConfig names one of the
\* table's headers, whatever sorts, removals and renames came before.
C20_SortKeyIsHeader ==
  (Mounted /\ sortConfig # Null) => sortConfig.key \in Headers(data)
=============================================================================
